---- MODULE Spec2Model ----
(***************************************************************************)
(* The orchestrator of the bandwidth sharing pool: its node registry, its  *)
(* routing table, the placement handler, heartbeat ingestion and the       *)
(* periodic cleanup of inactive nodes (src/orchestrator/src/main.rs).      *)
(*                                                                         *)
(* Node ids and client ids are the integers 1..NumNodes and 1..NumClients, *)
(* ordered as the id strings are; NoneId stands for the string "none" and  *)
(* for an absent preferred_node.                                           *)
(***************************************************************************)
EXTENDS Integers, FiniteSets, Sequences, TLC

\* ---------------------------------------------------------------- bounds

NumNodes == 2

NumClients == 2

\* Capacities the workers of the model are started with.
SmallCapacity == 1

LargeCapacity == 200

\* Placement requests stop arriving once this much load is admitted.
MaxTotalLoad == 3

\* The clock stops advancing here.
MaxTime == 16

\* Largest current_load a heartbeat payload carries.
MaxPayloadLoad == 1

\* ------------------------------------------------------ program constants

\* let timeout = 15; // seconds
Timeout == 15

\* String::from("none")
NoneId == 0

NodeIds == 1..NumNodes

ClientIds == 1..NumClients

Capacities == {SmallCapacity, LargeCapacity}

\* The clock advances by whole seconds; the model takes the two steps that
\* land on either side of the timeout.
ClockSteps == {Timeout, Timeout + 1}

\* The (node_type, status) pairs the heartbeats of the model carry: a worker
\* that is Active, a worker that is not, and a node that is no worker.
HeartbeatKinds ==
    {<<"Node", "Active">>, <<"Node", "Inactive">>, <<"Client", "Active">>}

\* "Capacity limit reached", the worker's reason of src/node/src/main.rs
CapacityReason == "Capacity limit reached"

NoAvailableReason == "No available master nodes"

NodeFailedReason == "Node failed to connect"

\* ----------------------------------------------------------------- state

VARIABLES
    nodes,          \* OrchestrationService.nodes: node id -> NodeInfo
    routing_table,  \* OrchestrationService.routing_table: client id -> node id
    now,            \* SystemTime::now() in seconds
    cleanup_pc,     \* the cleanup task: "idle", "clock_read" or "panicked"
    current_time,   \* cleanup_inactive_nodes' reading of the clock
    stale_found,    \* history: nodes the last sweep found inactive and that
                    \* have sent no heartbeat since
    last,           \* history: the last message handled, with its inputs
    outbox,         \* the responses the last handler handed to publish
    hb_log,         \* history: the heartbeats ingested, with what they carried
    node_info,      \* Node.node_info of one worker: its id and capacity
    node_load,      \* Node.current_load, the worker's own counter
    node_pc,        \* the worker's event loop: "idle" or "processing"
    node_last,      \* history: the last placement request the worker handled
    node_outbox,    \* the responses the worker's last handler handed to publish
    slave_id,       \* SlaveNode.node_info.node_id of one requester
    master_id,      \* SlaveNode.master_id, NoneId for None
    slave_subs,     \* the topic filters the requester has subscribed to
    slave_events,   \* what the requester's event loop has still to poll
    slave_published,\* history: how many messages the requester has published
    requests,       \* the requester's placement requests not yet consumed
    config,         \* SlaveNode.config: the node whose configuration is
                    \* stored, NoneId for None
    slave_status,   \* node_info_clone.status of the requester's heartbeat task
    slave_run,      \* the requester process: "running" or "down"
    slave_sent,     \* history: what the requester's last tick or shutdown
                    \* handed to publish
    node_run,       \* the worker process: "running" or "down"
    node_sent,      \* history: what the worker's last tick or shutdown
                    \* handed to publish
    loop_pc,        \* the orchestrator's event loop: "idle", or "hb_read"
                    \* between the two lock acquisitions of a heartbeat
    pending,        \* the heartbeat the event loop is ingesting
    locks,          \* for each of the two mutexes, the tasks that have
                    \* called lock(), in order: the first holds it
    inflight        \* a placement request on routing/request and the
                    \* subscribers that have still to consume it

\* The orchestrator's variables.
orch_vars == <<nodes, routing_table, now, cleanup_pc, current_time,
               stale_found, last, outbox>>

\* The worker's variables.
node_vars == <<node_info, node_load, node_pc, node_last, node_outbox,
               node_run, node_sent>>

\* The requester's variables.
slave_vars == <<slave_id, master_id, slave_subs, slave_events,
                slave_published, requests, config, slave_status, slave_run,
                slave_sent>>

\* The stages of the orchestrator's event loop.
loop_vars == <<loop_pc, pending, locks>>

vars == <<orch_vars, hb_log, node_vars, slave_vars, loop_vars, inflight>>

\* A NodeInfo as the registry holds it (version and metadata are never read).
NodeInfo(node_type, status, capacity, current_load, last_heartbeat) ==
    [node_type |-> node_type, status |-> status, capacity |-> capacity,
     current_load |-> current_load, last_heartbeat |-> last_heartbeat]

\* A RoutingResponse, with the topic's client id and publish()'s result.
RoutingResponse(node_id, client_id, status, reason, configured, ok) ==
    [topic_client |-> client_id, node_id |-> node_id, client_id |-> client_id,
     status |-> status, rejection_reason |-> reason,
     configuration |-> configured, published |-> ok]

NoLast ==
    [kind |-> "none", id |-> NoneId, preferred |-> NoneId, payload_load |-> 0]

RECURSIVE SumLoad(_, _)
SumLoad(reg, ids) ==
    IF ids = {} THEN 0
    ELSE LET n == CHOOSE x \in ids : TRUE
         IN reg[n].current_load + SumLoad(reg, ids \ {n})

TotalLoad == SumLoad(nodes, DOMAIN nodes)

Init ==
    /\ nodes = << >>
    /\ routing_table = << >>
    /\ now = 0
    /\ cleanup_pc = "idle"
    /\ current_time = 0
    /\ stale_found = {}
    /\ last = NoLast
    /\ outbox = {}

\* HashMap::insert
Insert(map, key, value) ==
    [k \in DOMAIN map \cup {key} |-> IF k = key THEN value ELSE map[k]]

\* ------------------------------------------------------------- the clock

Tick ==
    /\ \E d \in ClockSteps :
          /\ now + d <= MaxTime
          /\ now' = now + d
    /\ UNCHANGED <<nodes, routing_table, cleanup_pc, current_time,
                   stale_found, last, outbox>>

\* ---------------------------------------------------- heartbeat ingestion

\* Mutant of PreservedLoad: the heartbeat's own current_load is stored.
PayloadLoad(node_id, payload_load) == payload_load

\* Mutant of PreservedLoad: a heartbeat starts the load again from 0.
LoadReset(node_id, payload_load) == 0

\* .get(node_id).map(|info| info.current_load).unwrap_or(0)
PreservedLoad(node_id, payload_load) ==
    IF node_id \in DOMAIN nodes THEN nodes[node_id].current_load ELSE 0

\* Mutant of ReceivedAt: the heartbeat's own last_heartbeat is stored.
CarriedHeartbeat(payload_heartbeat) == payload_heartbeat

\* node_info.last_heartbeat = SystemTime::now()...as_secs(): the time the
\* payload carries is overwritten with the orchestrator's clock.
ReceivedAt(payload_heartbeat) == now

\* The "heartbeat/master/" branch of the event loop: the payload is stored
\* under the topic's node id, with the registry's load and the clock's time.
IngestHeartbeat(node_id, node_type, status, capacity, payload_load, payload_heartbeat) ==
    /\ nodes' = Insert(nodes, node_id,
                       NodeInfo(node_type, status, capacity,
                                PreservedLoad(node_id, payload_load),
                                ReceivedAt(payload_heartbeat)))
    /\ stale_found' = stale_found \ {node_id}
    /\ last' = [kind |-> "heartbeat", id |-> node_id, preferred |-> NoneId,
                payload_load |-> payload_load]
    /\ outbox' = {}
    /\ UNCHANGED <<routing_table, now, cleanup_pc, current_time>>

\* The heartbeats that arrive. A node's capacity is fixed when the node is
\* created (NodeInfo::new) and its heartbeats are clones of that record, so
\* a heartbeat of a registered node carries the capacity the registry holds.
\* Here the sender's clock agrees with the orchestrator's and the heartbeat
\* arrives at once: it carries the current time.
Heartbeat ==
    \E node_id \in NodeIds, kind \in HeartbeatKinds,
       capacity \in Capacities, payload_load \in 0..MaxPayloadLoad :
        /\ node_id \in DOMAIN nodes => capacity = nodes[node_id].capacity
        /\ IngestHeartbeat(node_id, kind[1], kind[2], capacity, payload_load,
                           now)

\* ------------------------------------------------------ placement handling

\* Mutant of Eligible: the capacity test is left out.
EligibleIgnoringCapacity(info) ==
    /\ info.status = "Active"
    /\ info.node_type = "Node"

\* Mutant of Eligible: the status test is left out.
EligibleIgnoringStatus(info) ==
    /\ info.current_load + 1 <= info.capacity
    /\ info.node_type = "Node"

\* Mutant of Eligible: the node type test is left out.
EligibleIgnoringType(info) ==
    /\ info.status = "Active"
    /\ info.current_load + 1 <= info.capacity

\* The filter of handle_routing_request.
Eligible(info) ==
    /\ info.status = "Active"
    /\ info.current_load + 1 <= info.capacity
    /\ info.node_type = "Node"

\* ((current_load as f32 / capacity as f32) * 100.0) as u32. The f32
\* arithmetic gives the floor of the exact percentage for every load below
\* 53 (it first differs at 53/100), and the model's loads stay below that.
LoadKey(info) == (info.current_load * 100) \div info.capacity

Candidates == {n \in DOMAIN nodes : Eligible(nodes[n])}

\* min_by_key returns the first minimum in iteration order, and a HashMap
\* iterates in an arbitrary order: any candidate with the least key can be
\* the one selected.
SelectedNodes ==
    {n \in Candidates :
        \A m \in Candidates : LoadKey(nodes[n]) <= LoadKey(nodes[m])}

\* Mutant of IncrementedLoad: the increment is forgotten.
LoadNotIncremented(info) == info

\* master_info.current_load += 1
IncrementedLoad(info) == [info EXCEPT !.current_load = @ + 1]

\* The Some branch: the load is raised and the routing table updated before
\* the response is built and handed to publish.
AcceptRequest(client_id, preferred, ok) ==
    \E node_id \in SelectedNodes :
        /\ nodes' = [nodes EXCEPT ![node_id] = IncrementedLoad(nodes[node_id])]
        /\ routing_table' = Insert(routing_table, client_id, node_id)
        /\ outbox' = {RoutingResponse(node_id, client_id, "Accepted", "",
                                      TRUE, ok)}

\* Mutant of RejectRequest: nothing is published when no node was selected.
RejectSilently(client_id, preferred, ok) ==
    /\ SelectedNodes = {}
    /\ outbox' = {}
    /\ UNCHANGED <<nodes, routing_table>>

\* Mutant of RejectRequest: a rejected requester loses its routing-table
\* entry.
RejectForgetsEntry(client_id, preferred, ok) ==
    /\ SelectedNodes = {}
    /\ outbox' = {RoutingResponse(NoneId, client_id, "Rejected",
                                  NoAvailableReason, FALSE, ok)}
    /\ routing_table' = [c \in DOMAIN routing_table \ {client_id} |->
                            routing_table[c]]
    /\ UNCHANGED nodes

\* The else branch.
RejectRequest(client_id, preferred, ok) ==
    /\ SelectedNodes = {}
    /\ outbox' = {RoutingResponse(NoneId, client_id, "Rejected",
                                  NoAvailableReason, FALSE, ok)}
    /\ UNCHANGED <<nodes, routing_table>>

HandleRoutingRequest(client_id, preferred, ok) ==
    /\ \/ AcceptRequest(client_id, preferred, ok)
       \/ RejectRequest(client_id, preferred, ok)
    /\ last' = [kind |-> "routing", id |-> client_id, preferred |-> preferred,
                payload_load |-> 0]
    /\ UNCHANGED <<now, cleanup_pc, current_time, stale_found>>

\* The placement requests that arrive, with the outcome of the publish.
Routing ==
    \E client_id \in ClientIds, preferred \in NodeIds \cup {NoneId},
       ok \in BOOLEAN :
        /\ TotalLoad < MaxTotalLoad
        /\ HandleRoutingRequest(client_id, preferred, ok)

\* ------------------------------------------------------- the cleanup task

\* cleanup_inactive_nodes reads the clock before it waits for the registry.
CleanupReadClock ==
    /\ cleanup_pc = "idle"
    /\ current_time' = now
    /\ cleanup_pc' = "clock_read"
    /\ UNCHANGED <<nodes, routing_table, now, stale_found, last, outbox>>

\* current_time - info.last_heartbeat > timeout, in u64: where the
\* subtraction does not panic, a last_heartbeat after current_time wraps to
\* a difference far above the timeout.
Inactive(info) ==
    IF info.last_heartbeat > current_time THEN TRUE
    ELSE current_time - info.last_heartbeat > Timeout

InactiveNodes == {n \in DOMAIN nodes : Inactive(nodes[n])}

\* Mutant of Retained: an entry is kept only if its node is not stale.
RetainedUnlessStale ==
    {c \in DOMAIN routing_table :
        /\ routing_table[c] \in DOMAIN nodes
        /\ ~Inactive(nodes[routing_table[c]])}

\* routing_table.retain(|client_id, node_id| nodes.contains_key(node_id))
Retained == {c \in DOMAIN routing_table : routing_table[c] \in DOMAIN nodes}

\* The body of cleanup_inactive_nodes, under the registry lock. With
\* overflow checks the subtraction panics on a heartbeat stamped after the
\* clock was read, and the task ends.
CleanupInactiveNodes(ok) ==
    /\ cleanup_pc = "clock_read"
    /\ \/ /\ \E n \in DOMAIN nodes : nodes[n].last_heartbeat > current_time
          /\ cleanup_pc' = "panicked"
          /\ UNCHANGED <<nodes, routing_table, stale_found, last, outbox>>
       \/ /\ routing_table' = [c \in Retained |-> routing_table[c]]
          /\ outbox' = {RoutingResponse(NoneId, c, "Rejected",
                                        NodeFailedReason, FALSE, ok) :
                           c \in DOMAIN routing_table \ Retained}
          /\ stale_found' = InactiveNodes
          /\ last' = [kind |-> "cleanup", id |-> NoneId,
                      preferred |-> NoneId, payload_load |-> 0]
          /\ cleanup_pc' = "idle"
          /\ UNCHANGED nodes
    /\ UNCHANGED <<now, current_time>>

Cleanup == \E ok \in BOOLEAN : CleanupInactiveNodes(ok)

\* The worker process is not part of a specification of the orchestrator
\* alone.
NoWorker ==
    /\ node_info = [node_id |-> NoneId, capacity |-> 0]
    /\ node_load = 0
    /\ node_pc = "idle"
    /\ node_last = NoLast
    /\ node_outbox = {}
    /\ node_run = "running"
    /\ node_sent = {}

\* Nor is a requester process.
NoSlave ==
    /\ slave_id = NoneId
    /\ master_id = NoneId
    /\ slave_subs = {}
    /\ slave_events = << >>
    /\ slave_published = 0
    /\ requests = 0
    /\ config = NoneId
    /\ slave_status = "Active"
    /\ slave_run = "running"
    /\ slave_sent = {}

\* The two mutexes of OrchestrationService.
LockNames == {"nodes", "routing_table"}

\* The orchestrator's event loop waits for its next event, no task has
\* called lock(), and no placement request is on its way to two
\* subscribers.
LoopIdle ==
    /\ loop_pc = "idle"
    /\ locks = [l \in LockNames |-> << >>]
    /\ pending = [node_id |-> NoneId, node_type |-> "", status |-> "",
                  capacity |-> 0, current_load |-> 0]
    /\ inflight = [request |-> NoLast, to |-> {}]

\* The orchestrator alone.
Next ==
    \/ Tick /\ UNCHANGED <<hb_log, node_vars, slave_vars, loop_vars, inflight>>
    \/ Heartbeat /\ UNCHANGED <<hb_log, node_vars, slave_vars, loop_vars, inflight>>
    \/ Routing /\ UNCHANGED <<hb_log, node_vars, slave_vars, loop_vars, inflight>>
    \/ CleanupReadClock /\ UNCHANGED <<hb_log, node_vars, slave_vars, loop_vars, inflight>>
    \/ Cleanup /\ UNCHANGED <<hb_log, node_vars, slave_vars, loop_vars, inflight>>

\* The orchestrator after construction, nothing ingested yet.
OrchestratorInit ==
    Init /\ hb_log = << >> /\ NoWorker /\ NoSlave /\ LoopIdle

Spec == OrchestratorInit /\ [][Next]_vars

\* -------------------------------------------------- steps, for the claims

\* A step that ingests one heartbeat.
HeartbeatStep ==
    /\ last'.kind = "heartbeat"
    /\ last'.id \in DOMAIN nodes'
    /\ \E payload_heartbeat \in 0..MaxTime :
          IngestHeartbeat(last'.id, nodes'[last'.id].node_type,
                          nodes'[last'.id].status, nodes'[last'.id].capacity,
                          last'.payload_load, payload_heartbeat)

\* A step that handles one placement request.
RoutingStep ==
    /\ last'.kind = "routing"
    /\ \E ok \in BOOLEAN : HandleRoutingRequest(last'.id, last'.preferred, ok)

\* A step in which the sweep runs to its end.
SweepStep == cleanup_pc = "clock_read" /\ cleanup_pc' = "idle"

\* The state is the one a sweep has just left.
AfterSweep == last.kind = "cleanup" /\ cleanup_pc = "idle"

\* The node's last heartbeat is older than the liveness deadline at time t.
Stale(info, t) == t - info.last_heartbeat > Timeout

\* The response handed to publish is an acceptance.
Accepted(r) == r.status = "Accepted"

\* a/b <= c/d for positive b and d, as exact fractions.
RatioLeq(a, b, c, d) == a * d <= c * b

\* ---------------------------------------------------------------- claims

\* C1: every NodeRecord of the registry has 0 <= current_load <= capacity,
\* after any sequence of heartbeats, placement requests and sweeps.
C1_LoadWithinCapacity ==
    \A n \in DOMAIN nodes :
        /\ 0 <= nodes[n].current_load
        /\ nodes[n].current_load <= nodes[n].capacity

\* A worker is filled to its capacity and a further placement request has
\* just been handled without selecting it.
C1_Witness ==
    /\ last.kind = "routing"
    /\ \E n \in DOMAIN nodes :
          /\ nodes[n].node_type = "Node"
          /\ nodes[n].status = "Active"
          /\ nodes[n].current_load = nodes[n].capacity
          /\ \A r \in outbox : r.node_id # n

\* C2: right after a sweep every routing-table entry's target exists in the
\* registry and is not stale at the sweep's time.
C2_RoutingTargetsLive ==
    AfterSweep =>
        \A c \in DOMAIN routing_table :
            /\ routing_table[c] \in DOMAIN nodes
            /\ ~Stale(nodes[routing_table[c]], current_time)

\* C3: a sweep that runs while client c is routed to a stale worker removes
\* c's entry and publishes, on routing/response/c, a Rejected response with
\* the reason "assigned worker became unreachable".
C3_SweepCascades ==
    [][SweepStep =>
         \A c \in DOMAIN routing_table :
            ( /\ routing_table[c] \in DOMAIN nodes
              /\ Stale(nodes[routing_table[c]], current_time) )
            => /\ c \notin DOMAIN routing_table'
               /\ \E r \in outbox' :
                     /\ r.topic_client = c
                     /\ r.status = "Rejected"
                     /\ r.rejection_reason = "assigned worker became unreachable"
      ]_vars

\* C4: no placement request is Accepted with a worker that the last sweep
\* found stale and that has sent no heartbeat since.
C4_StaleNotSelected ==
    last.kind = "routing" =>
        \A r \in outbox : Accepted(r) => r.node_id \notin stale_found

\* C5: the node an Accepted response names has, before the increment, an
\* exact load ratio current_load/capacity no greater than that of every
\* other eligible candidate.
C5_LowestExactRatio ==
    [][RoutingStep =>
         \A r \in outbox' :
            Accepted(r) =>
               \A m \in Candidates :
                  RatioLeq(nodes[r.node_id].current_load,
                           nodes[r.node_id].capacity,
                           nodes[m].current_load, nodes[m].capacity)
      ]_vars

\* The eligible candidates whose exact load ratio is the lowest.
LowestRatio ==
    {n \in Candidates :
        \A m \in Candidates :
            RatioLeq(nodes[n].current_load, nodes[n].capacity,
                     nodes[m].current_load, nodes[m].capacity)}

\* C6: the selection is a function of the registry and the request: it is
\* the smallest node id among the eligible candidates of lowest load ratio.
C6_DeterministicSelection ==
    [][RoutingStep =>
         \A r \in outbox' :
            Accepted(r) =>
               /\ r.node_id \in LowestRatio
               /\ \A m \in LowestRatio : r.node_id <= m
      ]_vars

\* C7: with an eligible worker and no preferred node, the handler answers
\* Accepted naming a node N, raises N's current_load by exactly 1, leaves
\* every other record as it was and records the entry client -> N.
C7_AcceptEffect ==
    [][(RoutingStep /\ last'.preferred = NoneId /\ Candidates # {}) =>
         \E N \in DOMAIN nodes :
            /\ \A r \in outbox' :
                  /\ Accepted(r)
                  /\ r.node_id = N
                  /\ r.client_id = last'.id
                  /\ r.topic_client = last'.id
            /\ Cardinality(outbox') = 1
            /\ DOMAIN nodes' = DOMAIN nodes
            /\ nodes'[N].current_load = nodes[N].current_load + 1
            /\ nodes'[N].capacity = nodes[N].capacity
            /\ nodes'[N].status = nodes[N].status
            /\ nodes'[N].node_type = nodes[N].node_type
            /\ nodes'[N].last_heartbeat = nodes[N].last_heartbeat
            /\ \A m \in DOMAIN nodes \ {N} : nodes'[m] = nodes[m]
            /\ DOMAIN routing_table' = DOMAIN routing_table \cup {last'.id}
            /\ routing_table'[last'.id] = N
            /\ \A c \in DOMAIN routing_table \ {last'.id} :
                  routing_table'[c] = routing_table[c]
      ]_vars

\* A request without preference has just been accepted by the less loaded
\* of two eligible workers.
C7_Witness ==
    /\ last.kind = "routing"
    /\ last.preferred = NoneId
    /\ \E r \in outbox :
          /\ Accepted(r)
          /\ routing_table[last.id] = r.node_id
          /\ \E m \in Candidates \ {r.node_id} :
                nodes[m].current_load > 0

\* Every worker of the registry is filled to its capacity.
AllWorkersFull ==
    \A n \in DOMAIN nodes :
        nodes[n].node_type = "Node" =>
            nodes[n].current_load = nodes[n].capacity

\* The registry holds no Active worker.
NoActiveWorker ==
    \A n \in DOMAIN nodes :
        ~(nodes[n].node_type = "Node" /\ nodes[n].status = "Active")

\* What a placement request is answered with when no worker can take it.
RejectedWith(reason) ==
    /\ Cardinality(outbox') = 1
    /\ \A r \in outbox' :
          /\ r.status = "Rejected"
          /\ r.node_id = NoneId
          /\ r.client_id = last'.id
          /\ r.topic_client = last'.id
          /\ r.rejection_reason = reason

C9_AbsentPreferredRejected ==
    [][(RoutingStep /\ last'.preferred # NoneId
                    /\ last'.preferred \notin DOMAIN nodes) =>
         /\ outbox' # {}
         /\ \A r \in outbox' :
               /\ r.status = "Rejected"
               /\ r.rejection_reason # CapacityReason
      ]_vars

\* C10: ingesting a heartbeat of a registered node leaves the node's
\* current_load as the registry had it, whatever the payload carries.
C10_HeartbeatKeepsLoad ==
    [][(HeartbeatStep /\ last'.id \in DOMAIN nodes) =>
         nodes'[last'.id].current_load = nodes[last'.id].current_load]_vars

\* A heartbeat has just been ingested for a node with admitted load, and
\* its payload carried another current_load.
C10_Witness ==
    /\ last.kind = "heartbeat"
    /\ last.id \in DOMAIN nodes
    /\ nodes[last.id].current_load > 0
    /\ last.payload_load # nodes[last.id].current_load

\* ---------------------------------------------------------------------
\* Heartbeats that carry their own time: the registry of one orchestrator
\* with the record of what each ingested heartbeat carried.

\* The most heartbeats recorded.
MaxHeartbeats == 3

\* The last_heartbeat values a payload may carry: the sender's clock need
\* not agree with the orchestrator's, and delivery may be late.
PayloadTimes == {0, Timeout, MaxTime}

\* The registry's last_heartbeat of a node, -1 when it has none.
StoredHeartbeat(node_id) ==
    IF node_id \in DOMAIN nodes THEN nodes[node_id].last_heartbeat ELSE -1

\* One heartbeat of an active worker is ingested; what it carried and what
\* the registry held before are recorded.
CarriedHeartbeatArrives ==
    /\ Len(hb_log) < MaxHeartbeats
    /\ \E node_id \in NodeIds, payload_heartbeat \in PayloadTimes :
        /\ IngestHeartbeat(node_id, "Node", "Active", SmallCapacity, 0,
                           payload_heartbeat)
        /\ hb_log' = Append(hb_log, [node_id |-> node_id,
                                     carried |-> payload_heartbeat,
                                     before |-> StoredHeartbeat(node_id)])
    /\ UNCHANGED <<node_vars, slave_vars, loop_vars, inflight>>

\* One requester asks for a placement, without a preference.
PlainRequestArrives ==
    /\ TotalLoad < MaxTotalLoad
    /\ HandleRoutingRequest(1, NoneId, TRUE)

HeartbeatNext ==
    \/ Tick /\ UNCHANGED <<hb_log, node_vars, slave_vars, loop_vars, inflight>>
    \/ CarriedHeartbeatArrives
    \/ PlainRequestArrives /\ UNCHANGED <<hb_log, node_vars, slave_vars, loop_vars, inflight>>
    \/ CleanupReadClock /\ UNCHANGED <<hb_log, node_vars, slave_vars, loop_vars, inflight>>
    \/ Cleanup /\ UNCHANGED <<hb_log, node_vars, slave_vars, loop_vars, inflight>>

HeartbeatSpec == OrchestratorInit /\ [][HeartbeatNext]_vars

\* The greater of two times.
Later(a, b) == IF a >= b THEN a ELSE b

\* The last two heartbeats ingested were for the same registered node and
\* both carried more than the registry held before the first of them.
TwoFresherHeartbeats ==
    /\ Len(hb_log) >= 2
    /\ LET a == hb_log[Len(hb_log) - 1]
           b == hb_log[Len(hb_log)]
       IN /\ a.node_id = b.node_id
          /\ a.before >= 0
          /\ a.carried > a.before
          /\ b.carried > a.before

\* C11: when two heartbeats of one node, both carrying a last_heartbeat
\* greater than the registry's value, are ingested in either order, the
\* registry's last_heartbeat of that node equals the greater carried value.
C11_GreaterCarriedWins ==
    TwoFresherHeartbeats =>
        nodes[hb_log[Len(hb_log)].node_id].last_heartbeat
            = Later(hb_log[Len(hb_log) - 1].carried,
                    hb_log[Len(hb_log)].carried)

C13_ReplacedEntryReleasesLoad ==
    [][(/\ RoutingStep
        /\ last'.id \in DOMAIN routing_table
        /\ routing_table'[last'.id] # routing_table[last'.id]) =>
         nodes'[routing_table[last'.id]].current_load
            = nodes[routing_table[last'.id]].current_load - 1]_vars

\* ---------------------------------------------------------------------
\* The topics of a configuration.

\* A topic built by format!: its literal prefix and the ids written after
\* it, NoneId where the template has no such id.
Topic(prefix, node_id, client_id) ==
    [prefix |-> prefix, node_id |-> node_id, client_id |-> client_id]

\* The orchestrator's ClientConfiguration of an Accepted response:
\* subscribe_topics and publish_topic, all built from client_id alone.
SlaveConfigTopics(node_id, client_id) ==
    {Topic("data/input/", NoneId, client_id),
     Topic("control/", NoneId, client_id),
     Topic("data/processed/", NoneId, client_id)}

\* The topics of the configuration a response of the orchestrator carries.
ConfiguredTopics(r) ==
    IF r.configuration THEN SlaveConfigTopics(r.node_id, r.client_id) ELSE {}

\* The topic names both the assigned node and the requester.
ScopedByBoth(t) == t.node_id # NoneId /\ t.client_id # NoneId

\* C15: every topic of an Accepted response's configuration is scoped by
\* both the assigned node and the requester, and two Accepted responses
\* (here: consecutive ones) whose (node, requester) pairs differ configure
\* disjoint sets of topics.
C15_TopicsScopedAndDisjoint ==
    [][\A q \in outbox' :
          Accepted(q) =>
             /\ \A t \in ConfiguredTopics(q) : ScopedByBoth(t)
             /\ \A r \in outbox :
                   (Accepted(r) /\ <<r.node_id, r.client_id>>
                                      # <<q.node_id, q.client_id>>)
                      => ConfiguredTopics(r) \cap ConfiguredTopics(q) = {}
      ]_vars

\* ---------------------------------------------------------------------
\* Every request is answered, and with an eligible node.

C20_AcceptedNodeWasEligible ==
    [][RoutingStep =>
         \A r \in outbox' :
            Accepted(r) =>
               /\ r.node_id \in DOMAIN nodes
               /\ nodes[r.node_id].status = "Active"
               /\ nodes[r.node_id].node_type = "Node"
               /\ nodes[r.node_id].current_load + 1
                     <= nodes[r.node_id].capacity]_vars

\* C20 witness: a request has just been accepted by a worker while the
\* registry also holds an Active node of another type with room and no
\* load.
C20_Witness ==
    /\ last.kind = "routing"
    /\ \E r \in outbox :
          /\ Accepted(r)
          /\ nodes[r.node_id].current_load > 1
          /\ \E m \in DOMAIN nodes :
                /\ nodes[m].node_type = "Client"
                /\ nodes[m].status = "Active"
                /\ nodes[m].current_load = 0

\* ---------------------------------------------------------------------
\* One worker process (src/node): its own counter and its own answers to
\* the placement requests it receives on routing/request/#.

\* The largest counter value an admission decision is evaluated for.
MaxNodeLoad == 2

\* NODE_CAPACITY parses as any u32, zero included.
NodeCapacities == {0, SmallCapacity, LargeCapacity}

NotPreferredReason == "Not preferred master"

\* Mutant of NodeDecision: the preference is tested before the capacity.
NodeDecisionPreferenceFirst(load, capacity, preferred, self) ==
    IF preferred # NoneId /\ preferred # self
    THEN <<"Rejected", NotPreferredReason>>
    ELSE IF load >= capacity
         THEN <<"Rejected", CapacityReason>>
         ELSE <<"Accepted", "">>

\* let (status, rejection_reason) = if ... else if ... else ...: the
\* worker's decision for a counter value, its capacity, the request's
\* preferred_node (NoneId for None) and its own id. "" stands for None.
NodeDecision(load, capacity, preferred, self) ==
    IF load >= capacity
    THEN <<"Rejected", CapacityReason>>
    ELSE IF preferred # NoneId /\ preferred # self
         THEN <<"Rejected", NotPreferredReason>>
         ELSE <<"Accepted", "">>

\* Mutant of NodeResponse: the configuration is attached whatever the status.
NodeResponseAlwaysConfigured(client_id, decision, ok) ==
    RoutingResponse(node_info.node_id, client_id, decision[1], decision[2],
                    TRUE, ok)

\* The RoutingResponse the worker builds: its own id, the decision, and a
\* configuration only if the status is Accepted.
NodeResponse(client_id, decision, ok) ==
    RoutingResponse(node_info.node_id, client_id, decision[1], decision[2],
                    decision[1] = "Accepted", ok)

\* The worker's ClientConfiguration: two topics named after the worker and
\* the requester, and one shared literal.
NodeConfigTopics(node_id, client_id) ==
    {Topic("data/response/", node_id, client_id),
     Topic("data/broadcast/#", NoneId, NoneId),
     Topic("data/request/", node_id, client_id)}

\* Node::handle_routing_request: the counter is read, never written; the
\* response is handed to publish and an error is only logged.
NodeHandleRoutingRequest(client_id, preferred, ok) ==
    /\ node_outbox' =
          {NodeResponse(client_id,
                        NodeDecision(node_load, node_info.capacity,
                                     preferred, node_info.node_id),
                        ok)}
    /\ node_last' = [kind |-> "routing", id |-> client_id,
                     preferred |-> preferred, payload_load |-> 0]
    /\ UNCHANGED <<node_info, node_load, node_pc, node_run, node_sent>>

\* The event loop takes a placement request when no handler is running.
NodeRouting ==
    /\ node_pc = "idle"
    /\ \E client_id \in ClientIds, preferred \in NodeIds \cup {NoneId},
          ok \in BOOLEAN :
           NodeHandleRoutingRequest(client_id, preferred, ok)
    /\ UNCHANGED <<orch_vars, hb_log, slave_vars, loop_vars, inflight>>

\* Node::handle_data_packet up to its sleep: fetch_add(1).
HandleDataPacketBegin ==
    /\ node_pc = "idle"
    /\ node_load' = node_load + 1
    /\ node_pc' = "processing"
    /\ node_outbox' = {}
    /\ node_last' = [kind |-> "data", id |-> NoneId, preferred |-> NoneId,
                     payload_load |-> 0]
    /\ UNCHANGED <<node_info, node_run, node_sent, orch_vars, hb_log, slave_vars,
                   loop_vars, inflight>>

\* Mutant of HandleDataPacketEnd: the handler returns without fetch_sub.
HandleDataPacketEndKeepsLoad ==
    /\ node_pc = "processing"
    /\ node_load < MaxNodeLoad
    /\ node_pc' = "idle"
    /\ UNCHANGED <<node_info, node_load, node_last, node_outbox, node_run,
                   node_sent, orch_vars, hb_log, slave_vars, loop_vars,
                   inflight>>

\* Node::handle_data_packet after its sleep: fetch_sub(1).
HandleDataPacketEnd ==
    /\ node_pc = "processing"
    /\ node_load' = node_load - 1
    /\ node_pc' = "idle"
    /\ UNCHANGED <<node_info, node_last, node_outbox, node_run, node_sent,
                   orch_vars, hb_log, slave_vars, loop_vars, inflight>>

\* What an emitter or a shutdown hands to publish: the topic, the NodeInfo
\* fields sent, whether the publish succeeded, and (history) whether the
\* publish before it had failed.
Sent(kind, topic, id, status, load, ok, retry) ==
    [kind |-> kind, topic |-> topic, node_id |-> id, status |-> status,
     current_load |-> load, published |-> ok, after_failure |-> retry]

\* The last publish of this set failed.
Failed(sent) == \E m \in sent : ~m.published

\* Mutant of NodeAfterPublish: a failed publish ends the heartbeat task.
NodeStopsOnError(ok) == IF ok THEN "running" ELSE "stopped"

\* if let Err(e) = publish.await { eprintln!(..) } else { println!(..) }:
\* either way the loop goes back to interval.tick().
NodeAfterPublish(ok) == "running"

\* Node::new: an id, the configured capacity, the counter at 0.
NodeNew ==
    /\ node_info \in [node_id : NodeIds, capacity : NodeCapacities]
    /\ node_load = 0
    /\ node_pc = "idle"
    /\ node_last = NoLast
    /\ node_outbox = {}
    /\ node_run = "running"
    /\ node_sent = {}

\* Node::start_heartbeat, one tick: a clone of node_info with the
\* counter's value as current_load is published on heartbeat/master/{id}.
StartHeartbeat(ok) ==
    /\ node_run = "running"
    /\ node_sent' = {Sent("heartbeat",
                          Topic("heartbeat/master/", node_info.node_id, NoneId),
                          node_info.node_id, "Active", node_load, ok,
                          Failed(node_sent))}
    /\ node_run' = NodeAfterPublish(ok)
    /\ UNCHANGED <<node_info, node_load, node_pc, node_last, node_outbox>>

\* A tick of the worker's heartbeat task and, if the publish succeeded,
\* the orchestrator's ingestion of the heartbeat.
HeartbeatSent ==
    /\ \E ok \in BOOLEAN :
          /\ StartHeartbeat(ok)
          /\ IF ok
             THEN IngestHeartbeat(node_info.node_id, "Node", "Active",
                                  node_info.capacity, node_load, now)
             ELSE UNCHANGED orch_vars
    /\ UNCHANGED <<hb_log, slave_vars, loop_vars, inflight>>

\* An orchestrator and a worker, each with its own state.
PoolInit == Init /\ hb_log = << >> /\ NodeNew /\ NoSlave /\ LoopIdle

PoolNext ==
    \/ HeartbeatSent
    \/ Routing /\ UNCHANGED <<hb_log, node_vars, slave_vars, loop_vars, inflight>>
    \/ CleanupReadClock /\ UNCHANGED <<hb_log, node_vars, slave_vars, loop_vars, inflight>>
    \/ Cleanup /\ UNCHANGED <<hb_log, node_vars, slave_vars, loop_vars, inflight>>
    \/ NodeRouting
    \/ HandleDataPacketBegin
    \/ HandleDataPacketEnd

PoolSpec == PoolInit /\ [][PoolNext]_vars

\* The admission decision as a function: a worker with any counter value
\* and capacity, to which requests are put.
AdmissionInit ==
    /\ Init
    /\ hb_log = << >>
    /\ node_info \in [node_id : NodeIds, capacity : NodeCapacities]
    /\ node_load \in 0..MaxNodeLoad
    /\ node_pc = "idle"
    /\ node_last = NoLast
    /\ node_outbox = {}
    /\ node_run = "running"
    /\ node_sent = {}
    /\ NoSlave
    /\ LoopIdle

AdmissionNext == NodeRouting

AdmissionSpec == AdmissionInit /\ [][AdmissionNext]_vars

\* ---------------------------------------------------------------------
\* The worker's answers.

\* A step in which the worker handles one placement request.
NodeRoutingStep ==
    /\ node_last'.kind = "routing"
    /\ \E ok \in BOOLEAN :
          NodeHandleRoutingRequest(node_last'.id, node_last'.preferred, ok)
    /\ UNCHANGED <<orch_vars, hb_log, slave_vars, loop_vars, inflight>>

\* C16: every response of the orchestrator and every response of the
\* worker carries a rejection_reason exactly when its status is Rejected
\* and a configuration exactly when its status is Accepted.
C16_ReasonAndConfiguration ==
    \A r \in outbox \cup node_outbox :
        /\ (r.rejection_reason # "") <=> (r.status = "Rejected")
        /\ r.configuration <=> (r.status = "Accepted")

\* C16 witness: the orchestrator's last answer is Accepted and the
\* worker's last answer is Rejected for the preference.
C16_Witness ==
    /\ \E r \in outbox : Accepted(r) /\ r.configuration
    /\ \E q \in node_outbox :
          /\ q.status = "Rejected"
          /\ q.rejection_reason = NotPreferredReason
          /\ ~q.configuration

\* C18: for every counter value, capacity and preferred_node the worker
\* answers Rejected for capacity when current_load + 1 > capacity;
\* otherwise Rejected for the preference when preferred_node is set and is
\* not the worker's id; otherwise Accepted. Capacity wins when both apply.
C18_OrderedRules ==
    [][NodeRoutingStep =>
         /\ Cardinality(node_outbox') = 1
         /\ \A r \in node_outbox' :
               IF node_load + 1 > node_info.capacity
               THEN /\ r.status = "Rejected"
                    /\ r.rejection_reason = CapacityReason
               ELSE IF /\ node_last'.preferred # NoneId
                       /\ node_last'.preferred # node_info.node_id
                    THEN /\ r.status = "Rejected"
                         /\ r.rejection_reason = NotPreferredReason
                    ELSE /\ r.status = "Accepted"
                         /\ r.rejection_reason = ""]_vars

\* C18 witness: a worker with capacity above zero whose counter has reached
\* it was asked for another node and answered Rejected for capacity.
C18_Witness ==
    /\ node_last.kind = "routing"
    /\ node_last.preferred # NoneId
    /\ node_last.preferred # node_info.node_id
    /\ node_info.capacity > 0
    /\ node_load >= node_info.capacity
    /\ \E r \in node_outbox :
          r.status = "Rejected" /\ r.rejection_reason = CapacityReason

\* C19: the worker's counter goes up by one in the step in which the
\* worker answers Accepted, and stays as it was when it answers Rejected.
C19_AcceptRaisesCounter ==
    [][NodeRoutingStep =>
         \A r \in node_outbox' :
            /\ Accepted(r) => node_load' = node_load + 1
            /\ ~Accepted(r) => node_load' = node_load]_vars

\* ---------------------------------------------------------------------
\* One requester process (src/client) with the orchestrator that answers
\* it and the broker between them.

\* The most messages the requester publishes.
MaxPublishes == 3

\* The topic a response is published on: "routing/response/{client_id}".
ResponseTopic(r) == Topic("routing/response/", NoneId, r.topic_client)

\* The prefix handle_events tests a publish against:
\* "routing/response/slave-{node_id}".
ExpectedResponsePrefix == Topic("routing/response/slave-", NoneId, slave_id)

\* str::starts_with on two formatted topics. The ids are "client-" followed
\* by a UUID, so one formatted topic starts with another only if both have
\* the same literal and the same id.
StartsWith(topic, prefix) ==
    /\ topic.prefix = prefix.prefix
    /\ topic.client_id = prefix.client_id

\* The broker hands a publish to the requester only under a filter the
\* requester has subscribed to.
Subscribed(topic) == topic \in slave_subs

\* What the event loop polls: the acknowledgement of one of the
\* requester's own publishes, or a publish of another process.
PubAck == [kind |-> "PubAck", topic |-> Topic("", NoneId, NoneId),
           status |-> "", node_id |-> NoneId, configuration |-> FALSE]

PublishEvent(r) ==
    [kind |-> "Publish", topic |-> ResponseTopic(r), status |-> r.status,
     node_id |-> r.node_id, configuration |-> r.configuration]

\* Mutant of HandleRoutingResponse: a Rejected response clears the master
\* and leaves the stored configuration.
HandleRoutingResponseKeepingConfig(response) ==
    IF response.status = "Accepted"
    THEN /\ master_id' = response.node_id
         /\ config' = IF response.configuration THEN response.node_id
                                                ELSE config
         /\ UNCHANGED slave_subs
    ELSE IF response.status = "Rejected"
         THEN master_id' = NoneId /\ UNCHANGED <<slave_subs, config>>
         ELSE UNCHANGED <<master_id, slave_subs, config>>

\* handle_routing_response.
HandleRoutingResponse(response) ==
    IF response.status = "Accepted"
    THEN /\ master_id' = response.node_id
         /\ slave_subs' =
               IF response.configuration
               THEN slave_subs
                    \cup {Topic("data/input/", NoneId, slave_id),
                          Topic("control/", NoneId, slave_id),
                          Topic("data/response/+", response.node_id, NoneId)}
               ELSE slave_subs
         /\ config' = IF response.configuration THEN response.node_id
                                                ELSE config
    ELSE IF response.status = "Rejected"
         THEN master_id' = NoneId /\ config' = NoneId /\ UNCHANGED slave_subs
         ELSE UNCHANGED <<master_id, slave_subs, config>>

\* handle_events, one poll: only a publish whose topic starts with the
\* expected prefix reaches handle_routing_response.
HandleEvents ==
    /\ slave_run = "running"
    /\ slave_events # << >>
    /\ LET event == Head(slave_events)
       IN IF /\ event.kind = "Publish"
             /\ StartsWith(event.topic, ExpectedResponsePrefix)
          THEN HandleRoutingResponse(event)
          ELSE UNCHANGED <<master_id, slave_subs, config>>
    /\ slave_events' = Tail(slave_events)
    /\ UNCHANGED <<slave_id, slave_published, requests, slave_status,
                   slave_run, slave_sent, orch_vars, hb_log, node_vars,
                   loop_vars, inflight>>

\* if let Err(e) = publish.await { eprintln!(..); .. }: the requester's
\* heartbeat task goes back to interval.tick() after a failed publish too.
SlaveAfterPublish(ok) == "running"

\* Mutant of SlaveTickSends: a placement request is published whether or
\* not a master is assigned.
SlaveTickAlwaysRequests(ok) ==
    {Sent("request", Topic("routing/request", NoneId, NoneId), slave_id,
          slave_status, 0, ok, Failed(slave_sent))}

\* What one tick of the requester's heartbeat task hands to publish: with
\* a master its heartbeat on heartbeat/slave/{id}, without one a
\* RoutingRequest on "routing/request" with client_id = its own id.
SlaveTickSends(ok) ==
    IF master_id # NoneId
    THEN {Sent("heartbeat", Topic("heartbeat/slave/", NoneId, slave_id),
               slave_id, slave_status, 0, ok, Failed(slave_sent))}
    ELSE {Sent("request", Topic("routing/request", NoneId, NoneId), slave_id,
               slave_status, 0, ok, Failed(slave_sent))}

\* One tick of the requester's heartbeat task. Without a master the
\* task's copy of node_info is marked Inactive. A publish that succeeded
\* is acknowledged to the event loop.
SlaveHeartbeatTick ==
    /\ slave_run = "running"
    /\ slave_published < MaxPublishes
    /\ slave_published' = slave_published + 1
    /\ \E ok \in BOOLEAN :
          /\ slave_sent' = SlaveTickSends(ok)
          /\ requests' = requests
                 + Cardinality({m \in slave_sent' :
                                   m.kind = "request" /\ m.published})
          /\ slave_events' = IF ok THEN Append(slave_events, PubAck)
                                   ELSE slave_events
          /\ slave_run' = SlaveAfterPublish(ok)
    /\ slave_status' = IF master_id # NoneId THEN slave_status ELSE "Inactive"
    /\ UNCHANGED <<slave_id, master_id, slave_subs, config,
                   orch_vars, hb_log, node_vars, loop_vars, inflight>>

\* The orchestrator consumes one of the requester's placement requests
\* (client_id is the requester's id, preferred_node is None); the broker
\* passes the published response on to the requester if it is subscribed.
RequestConsumed ==
    /\ requests > 0
    /\ requests' = requests - 1
    /\ TotalLoad < MaxTotalLoad
    /\ \E ok \in BOOLEAN :
          /\ HandleRoutingRequest(slave_id, NoneId, ok)
          /\ slave_events' =
                IF ok /\ \E r \in outbox' : Subscribed(ResponseTopic(r))
                THEN Append(slave_events,
                            PublishEvent(CHOOSE r \in outbox' : TRUE))
                ELSE slave_events
    /\ UNCHANGED <<slave_id, master_id, slave_subs, slave_published, config,
                   slave_status, slave_run, slave_sent, hb_log, node_vars,
                   loop_vars, inflight>>

\* SlaveNode::new: an id, no master, no subscription.
SlaveNew ==
    /\ slave_id \in ClientIds
    /\ master_id = NoneId
    /\ slave_subs = {}
    /\ slave_events = << >>
    /\ slave_published = 0
    /\ requests = 0
    /\ config = NoneId
    /\ slave_status = "Active"
    /\ slave_run = "running"
    /\ slave_sent = {}

ClientInit == Init /\ hb_log = << >> /\ NoWorker /\ SlaveNew /\ LoopIdle

ClientNext ==
    \/ Heartbeat /\ UNCHANGED <<hb_log, node_vars, slave_vars, loop_vars, inflight>>
    \/ SlaveHeartbeatTick
    \/ RequestConsumed
    \/ HandleEvents

ClientSpec == ClientInit /\ [][ClientNext]_vars

\* C14: a response published on routing/response/{requester_id} for the
\* requester's request is received and processed by the requester: once an
\* Accepted response has been published and the requester's event loop has
\* nothing left to poll, the requester's master is the node it names.
C14_AcceptedResponseSetsMaster ==
    \A r \in outbox :
        (/\ last.kind = "routing"
         /\ Accepted(r)
         /\ r.published
         /\ r.topic_client = slave_id
         /\ slave_events = << >>)
           => master_id = r.node_id

\* ---------------------------------------------------------------------
\* The preferred node in the orchestrator.

\* C21: a placement request with preferred_node = P is never answered
\* Accepted with a node other than P.
C21_PreferredHonoured ==
    [][(RoutingStep /\ last'.preferred # NoneId) =>
         \A r \in outbox' :
            Accepted(r) => r.node_id = last'.preferred]_vars

\* ---------------------------------------------------------------------
\* The accept and its response; the load and the routing table.

\* C28: the load increment and the routing-table entry of an Accept are
\* in place exactly when the Accepted response was published: a request
\* whose response could not be published leaves the registry and the
\* routing table as they were.
C28_AcceptAllOrNothing ==
    [][RoutingStep =>
         \A r \in outbox' :
            /\ (Accepted(r) /\ r.published) =>
                  /\ nodes'[r.node_id].current_load
                        = nodes[r.node_id].current_load + 1
                  /\ r.client_id \in DOMAIN routing_table'
                  /\ routing_table'[r.client_id] = r.node_id
            /\ ~r.published =>
                  /\ nodes' = nodes
                  /\ routing_table' = routing_table]_vars

\* C29: placement keeps the sum of current_load over the registry equal to
\* the number of routing-table entries, also when the requester already
\* has an entry.
C29_LoadEqualsEntries ==
    [][(RoutingStep /\ TotalLoad = Cardinality(DOMAIN routing_table)) =>
         TotalLoad' = Cardinality(DOMAIN routing_table')]_vars

\* ---------------------------------------------------------------------
\* A worker and a requester from start to shutdown: their heartbeat tasks,
\* the requester's handling of the responses it polls, and cleanup.

\* The most events waiting in the requester's event loop.
MaxEvents == 1

\* The statuses of RoutingStatus.
RoutingStatuses == {"Accepted", "Rejected", "Pending"}

\* A tick of the worker's heartbeat task.
NodeHeartbeatTick ==
    /\ \E ok \in BOOLEAN : StartHeartbeat(ok)
    /\ UNCHANGED <<orch_vars, hb_log, slave_vars, loop_vars, inflight>>

\* The event loop is handed a RoutingResponse published on a topic that
\* starts with the prefix handle_events expects.
ResponseDelivered ==
    /\ slave_run = "running"
    /\ Len(slave_events) < MaxEvents
    /\ \E status \in RoutingStatuses, node_id \in NodeIds,
          configuration \in BOOLEAN :
           slave_events' =
              Append(slave_events,
                     [kind |-> "Publish", topic |-> ExpectedResponsePrefix,
                      status |-> status, node_id |-> node_id,
                      configuration |-> configuration])
    /\ UNCHANGED <<slave_id, master_id, slave_subs, slave_published, requests,
                   config, slave_status, slave_run, slave_sent, orch_vars,
                   hb_log, node_vars, loop_vars, inflight>>

\* cleanup of src/node: the final heartbeat, status Inactive, is published
\* on heartbeat/node/{id} whatever the outcome, and the process exits.
NodeCleanup(ok) ==
    /\ node_sent' = {Sent("final",
                          Topic("heartbeat/node/", node_info.node_id, NoneId),
                          node_info.node_id, "Inactive", 0, ok,
                          Failed(node_sent))}
    /\ node_run' = "down"
    /\ UNCHANGED <<node_info, node_load, node_pc, node_last, node_outbox>>

\* ctrl_c in the worker's main.
NodeShutdown ==
    /\ node_run = "running"
    /\ \E ok \in BOOLEAN : NodeCleanup(ok)
    /\ UNCHANGED <<orch_vars, hb_log, slave_vars, loop_vars, inflight>>

\* cleanup of src/client: the final heartbeat, status Offline, is published
\* on heartbeat/slave/{id} only if a master is assigned; then the process
\* exits.
SlaveCleanup(ok) ==
    /\ slave_sent' =
          IF master_id # NoneId
          THEN {Sent("final", Topic("heartbeat/slave/", NoneId, slave_id),
                     slave_id, "Offline", 0, ok, Failed(slave_sent))}
          ELSE {}
    /\ slave_run' = "down"
    /\ UNCHANGED <<slave_id, master_id, slave_subs, slave_events,
                   slave_published, requests, config, slave_status>>

\* ctrl_c in the requester's main.
SlaveShutdown ==
    /\ slave_run = "running"
    /\ \E ok \in BOOLEAN : SlaveCleanup(ok)
    /\ UNCHANGED <<orch_vars, hb_log, node_vars, loop_vars, inflight>>

\* The worker's capacity plays no part here: one value is taken.
LifecycleInit ==
    /\ Init /\ hb_log = << >> /\ NodeNew /\ SlaveNew /\ LoopIdle
    /\ node_info.capacity = SmallCapacity

LifecycleNext ==
    \/ NodeHeartbeatTick
    \/ SlaveHeartbeatTick
    \/ ResponseDelivered
    \/ HandleEvents
    \/ NodeShutdown
    \/ SlaveShutdown

LifecycleSpec == LifecycleInit /\ [][LifecycleNext]_vars

\* A step in which the requester's event loop hands a polled response to
\* handle_routing_response.
ResponseHandledStep ==
    /\ slave_events # << >>
    /\ slave_events' = Tail(slave_events)
    /\ Head(slave_events).kind = "Publish"
    /\ StartsWith(Head(slave_events).topic, ExpectedResponsePrefix)

\* C22: each response the requester processes leaves its assignment as
\* that response says: Accepted sets the master to the response's node,
\* Rejected clears the master and the stored configuration, Pending
\* changes neither; so after any sequence the assignment is that of the
\* latest response that was not Pending.
C22_LatestResponseWins ==
    [][ResponseHandledStep =>
         LET response == Head(slave_events)
         IN /\ response.status = "Accepted" =>
                  master_id' = response.node_id
            /\ response.status = "Rejected" =>
                  master_id' = NoneId /\ config' = NoneId
            /\ response.status = "Pending" =>
                  master_id' = master_id /\ config' = config]_vars

\* C22 witness: the requester was accepted with a configuration (it holds
\* the subscriptions) and then rejected: no master, no configuration.
C22_Witness ==
    /\ slave_subs # {}
    /\ master_id = NoneId
    /\ config = NoneId
    /\ slave_events = << >>

\* A step that is one tick of the requester's heartbeat task.
SlaveTickStep == slave_published' = slave_published + 1

\* C23: a tick of the requester's heartbeat task without a master hands
\* exactly one message to publish, a placement request on routing/request
\* carrying the requester's id; a tick with a master hands exactly one, its
\* heartbeat record, and no placement request.
C23_TickRequestsOrBeats ==
    [][SlaveTickStep =>
         /\ Cardinality(slave_sent') = 1
         /\ \A m \in slave_sent' :
               IF master_id = NoneId
               THEN /\ m.kind = "request"
                    /\ m.topic = Topic("routing/request", NoneId, NoneId)
                    /\ m.node_id = slave_id
               ELSE /\ m.kind = "heartbeat"
                    /\ m.topic = Topic("heartbeat/slave/", NoneId, slave_id)
                    /\ requests' = requests]_vars

\* C23 witness: the requester, with a master assigned, has published its
\* heartbeat after an earlier tick had published a placement request.
C23_Witness ==
    /\ master_id # NoneId
    /\ slave_status = "Inactive"
    /\ \E m \in slave_sent : m.kind = "heartbeat" /\ m.published

\* C24: after a failed publish of its heartbeat task, the worker's task
\* and the requester's task are still running, at their next tick.
C24_EmitterSurvivesFailure ==
    /\ \A m \in node_sent :
          (m.kind = "heartbeat" /\ ~m.published) => node_run = "running"
    /\ \A m \in slave_sent :
          (m.kind \in {"heartbeat", "request"} /\ ~m.published)
             => slave_run = "running"

\* C24 witness: the worker and the requester have each published again, on
\* the tick after a publish that failed.
C24_Witness ==
    /\ \E m \in node_sent :
          m.kind = "heartbeat" /\ m.after_failure /\ m.published
    /\ \E m \in slave_sent :
          m.kind = "heartbeat" /\ m.after_failure /\ m.published

\* The set holds exactly one final record, and its status is not Active.
OneLivenessDown(sent) ==
    /\ Cardinality(sent) = 1
    /\ \A m \in sent : m.kind = "final" /\ m.status # "Active"

\* C25: a worker or requester that has shut down has handed exactly one
\* final liveness-down record to publish, with or without an assignment.
C25_FinalRecordPublished ==
    /\ node_run = "down" => OneLivenessDown(node_sent)
    /\ slave_run = "down" => OneLivenessDown(slave_sent)

\* ---------------------------------------------------------------------
\* The orchestrator's event loop one lock acquisition at a time, with the
\* tasks that run beside it: the sweep and the status printer.

\* serde_json::from_slice(..).is_ok() of a payload.
FromSlice(payload) == payload = "well-formed"

\* Mutant of LoopTakesEvent: handlers run as tasks of their own, so the
\* loop polls while a heartbeat is between its two lock acquisitions.
HandlersSpawned == TRUE

\* The loop awaits each handler before it polls again.
LoopTakesEvent == loop_pc = "idle"

\* The heartbeat branch up to the end of its first lock acquisition: the
\* payload is decoded and the stored current_load of the node is read.
HeartbeatReadLoad ==
    /\ LoopTakesEvent
    /\ \E node_id \in NodeIds, capacity \in Capacities :
          /\ node_id \in DOMAIN nodes => capacity = nodes[node_id].capacity
          /\ FromSlice("well-formed")
          /\ pending' = [node_id |-> node_id, node_type |-> "Node",
                         status |-> "Active", capacity |-> capacity,
                         current_load |-> PreservedLoad(node_id, 0)]
    /\ loop_pc' = "hb_read"
    /\ last' = [kind |-> "heartbeat_read", id |-> pending'.node_id,
                preferred |-> NoneId, payload_load |-> 0]
    /\ UNCHANGED <<nodes, routing_table, now, cleanup_pc, current_time,
                   stale_found, outbox, hb_log, node_vars, slave_vars,
                   inflight>>

\* The heartbeat branch from the clock reading on: the record, with the
\* load read before, is inserted under the second lock acquisition.
HeartbeatWrite ==
    /\ loop_pc = "hb_read"
    /\ nodes' = Insert(nodes, pending.node_id,
                       NodeInfo(pending.node_type, pending.status,
                                pending.capacity, pending.current_load,
                                ReceivedAt(now)))
    /\ stale_found' = stale_found \ {pending.node_id}
    /\ last' = [kind |-> "heartbeat", id |-> pending.node_id,
                preferred |-> NoneId, payload_load |-> 0]
    /\ outbox' = {}
    /\ loop_pc' = "idle"
    /\ UNCHANGED <<routing_table, now, cleanup_pc, current_time, pending,
                   hb_log, node_vars, slave_vars, inflight>>

\* Mutant of DropMalformed: a heartbeat that does not decode registers a
\* default record under the topic's id.
RegisterDefaultOnMalformed(topic, node_id) ==
    /\ nodes' = IF topic = "heartbeat/master/"
                THEN Insert(nodes, node_id,
                            NodeInfo("Node", "Active", 0, 0, 0))
                ELSE nodes
    /\ last' = [kind |-> "malformed", id |-> node_id, preferred |-> NoneId,
                payload_load |-> 0]
    /\ outbox' = {}
    /\ UNCHANGED <<routing_table, now, cleanup_pc, current_time, stale_found>>

\* if let Ok(..) = serde_json::from_slice(..) without an else: a payload
\* that does not decode is passed over, on either topic.
DropMalformed(topic, node_id) ==
    /\ ~FromSlice("malformed")
    /\ last' = [kind |-> "malformed", id |-> node_id, preferred |-> NoneId,
                payload_load |-> 0]
    /\ outbox' = {}
    /\ UNCHANGED <<nodes, routing_table, now, cleanup_pc, current_time,
                   stale_found>>

\* A publish whose payload does not decode arrives on a heartbeat topic
\* (with the node id of the topic) or on routing/request.
MalformedArrives ==
    /\ LoopTakesEvent
    /\ \/ \E node_id \in NodeIds : DropMalformed("heartbeat/master/", node_id)
       \/ DropMalformed("routing/request", NoneId)
    /\ UNCHANGED <<hb_log, node_vars, slave_vars, loop_vars, inflight>>

\* A placement request arrives.
RequestArrives ==
    /\ LoopTakesEvent
    /\ PlainRequestArrives
    /\ UNCHANGED <<hb_log, node_vars, slave_vars, loop_vars, inflight>>

\* print_status: both maps are read under their locks and printed.
PrintStatus == UNCHANGED vars

EventLoopNext ==
    \/ Tick /\ UNCHANGED <<hb_log, node_vars, slave_vars, loop_vars, inflight>>
    \/ HeartbeatReadLoad /\ UNCHANGED locks
    \/ HeartbeatWrite /\ UNCHANGED locks
    \/ MalformedArrives
    \/ RequestArrives
    \/ CleanupReadClock
         /\ UNCHANGED <<hb_log, node_vars, slave_vars, loop_vars, inflight>>
    \/ Cleanup /\ UNCHANGED <<hb_log, node_vars, slave_vars, loop_vars, inflight>>
    \/ PrintStatus

EventLoopSpec == OrchestratorInit /\ [][EventLoopNext]_vars

\* A step in which a payload that does not decode is handled.
MalformedStep == last'.kind = "malformed" /\ last' # last

\* C26: a heartbeat or placement request whose payload does not decode is
\* dropped: the registry and the routing table stay as they were, nothing
\* is published, and the event loop is ready for its next message.
C26_MalformedDropped ==
    [][MalformedStep =>
         /\ nodes' = nodes
         /\ routing_table' = routing_table
         /\ outbox' = {}
         /\ loop_pc' = "idle"]_vars

\* C26 witness: with a worker registered and a requester placed, a payload
\* that did not decode has just been handled.
C26_Witness ==
    /\ last.kind = "malformed"
    /\ DOMAIN nodes # {}
    /\ DOMAIN routing_table # {}

\* C27: the record a heartbeat writes under its second lock acquisition
\* carries the current_load the registry holds at that moment: no
\* increment made since the read under the first acquisition is lost.
C27_NoLostIncrement ==
    [][(loop_pc = "hb_read" /\ loop_pc' = "idle") =>
         nodes'[pending.node_id].current_load
            = IF pending.node_id \in DOMAIN nodes
              THEN nodes[pending.node_id].current_load
              ELSE 0]_vars

\* C27 witness: a heartbeat of a worker with load has read the load, and
\* a sweep has run to its end before the heartbeat's write.
C27_Witness ==
    /\ loop_pc = "hb_read"
    /\ pending.current_load > 0
    /\ last.kind = "cleanup"

\* ---------------------------------------------------------------------
\* One placement request on routing/request and all its subscribers: the
\* orchestrator and a worker.

\* A topic filter: its levels, and whether it ends with the multi-level
\* wildcard "#".
OrchestratorFilter == [levels |-> <<"routing", "request">>, multi |-> FALSE]

NodeFilter == [levels |-> <<"routing", "request">>, multi |-> TRUE]

\* The broker's matching of a topic against a filter: "#" stands for the
\* level before it and everything below.
Matches(filter, topic) ==
    IF filter.multi
    THEN /\ Len(topic) >= Len(filter.levels)
         /\ SubSeq(topic, 1, Len(filter.levels)) = filter.levels
    ELSE topic = filter.levels

\* The processes a publish on "routing/request" is delivered to.
RequestSubscribers ==
    {p \in {"orchestrator", "node"} :
        Matches(IF p = "node" THEN NodeFilter ELSE OrchestratorFilter,
                <<"routing", "request">>)}

\* A requester publishes a placement request (preferred_node None, as
\* request_routing builds it); the broker queues it for every subscriber.
RequestPublished ==
    /\ inflight.to = {}
    /\ TotalLoad < MaxTotalLoad
    /\ \E client_id \in ClientIds :
          inflight' = [request |-> [kind |-> "routing", id |-> client_id,
                                    preferred |-> NoneId, payload_load |-> 0],
                       to |-> RequestSubscribers]
    /\ UNCHANGED <<orch_vars, hb_log, node_vars, slave_vars, loop_vars>>

\* The orchestrator's event loop takes the request.
OrchestratorTakes ==
    /\ "orchestrator" \in inflight.to
    /\ inflight' = [inflight EXCEPT !.to = @ \ {"orchestrator"}]
    /\ \E ok \in BOOLEAN :
          HandleRoutingRequest(inflight.request.id,
                               inflight.request.preferred, ok)
    /\ UNCHANGED <<hb_log, node_vars, slave_vars, loop_vars>>

\* The worker's event loop takes the request.
NodeTakes ==
    /\ "node" \in inflight.to
    /\ node_pc = "idle"
    /\ inflight' = [inflight EXCEPT !.to = @ \ {"node"}]
    /\ \E ok \in BOOLEAN :
          NodeHandleRoutingRequest(inflight.request.id,
                                   inflight.request.preferred, ok)
    /\ UNCHANGED <<orch_vars, hb_log, slave_vars, loop_vars>>

\* The worker's heartbeat, which registers it with the orchestrator.
WorkerRegisters ==
    /\ \E ok \in BOOLEAN :
          /\ StartHeartbeat(ok)
          /\ IF ok
             THEN IngestHeartbeat(node_info.node_id, "Node", "Active",
                                  node_info.capacity, node_load, now)
             ELSE UNCHANGED orch_vars
    /\ UNCHANGED <<hb_log, slave_vars, loop_vars, inflight>>

BroadcastNext ==
    \/ WorkerRegisters
    \/ RequestPublished
    \/ OrchestratorTakes
    \/ NodeTakes

BroadcastSpec == PoolInit /\ [][BroadcastNext]_vars

\* The request in flight has been handled by every subscriber, and
\* nothing has been handled since.
RequestSettled ==
    /\ inflight.request.kind = "routing"
    /\ inflight.to = {}
    /\ last = inflight.request
    /\ node_last = inflight.request

\* C30: for one placement request, all Accepted responses published on
\* routing/response/{requester_id} name one node, that node is the
\* requester's routing-table target, and the worker does not answer a
\* request that the orchestrator answers.
C30_OneAnswerPerRequest ==
    RequestSettled =>
        LET accepted == {r \in outbox \cup node_outbox :
                            Accepted(r) /\ r.published}
        IN /\ \A r \in accepted, q \in accepted : r.node_id = q.node_id
           /\ \A r \in accepted :
                 /\ r.client_id \in DOMAIN routing_table
                 /\ routing_table[r.client_id] = r.node_id
           /\ ~(outbox # {} /\ node_outbox # {})

\* ---------------------------------------------------------------------
\* A worker from its first heartbeat to its shutdown, the broker, and the
\* orchestrator that registers it.

\* The filters OrchestrationService::new subscribes to: "heartbeat/master/+",
\* "routing/request", "master/status/+", each by its literal part.
OrchestratorSubscriptions ==
    {"heartbeat/master/", "routing/request", "master/status/"}

\* The broker hands the orchestrator a publish whose topic matches one of
\* its filters; the event loop treats it as a heartbeat when the topic
\* starts with "heartbeat/master/".
DispatchedAsHeartbeat(topic) ==
    /\ topic.prefix \in OrchestratorSubscriptions
    /\ topic.prefix = "heartbeat/master/"

\* The processes a successfully published liveness record is delivered to.
HeartbeatSubscribers(sent) ==
    IF sent.published /\ DispatchedAsHeartbeat(sent.topic)
    THEN {"orchestrator"}
    ELSE {}

\* A tick of the worker's heartbeat task; the broker queues the record
\* for its subscribers. One message is in flight at a time.
WorkerHeartbeatPublished ==
    /\ inflight.to = {}
    /\ \E ok \in BOOLEAN : StartHeartbeat(ok)
    /\ \E sent \in node_sent' :
          inflight' = [request |-> sent, to |-> HeartbeatSubscribers(sent)]
    /\ UNCHANGED <<orch_vars, hb_log, slave_vars, loop_vars>>

\* ctrl_c in the worker's main: cleanup publishes the final record and
\* the broker queues it for its subscribers.
WorkerShutsDown ==
    /\ inflight.to = {}
    /\ node_run = "running"
    /\ \E ok \in BOOLEAN : NodeCleanup(ok)
    /\ \E sent \in node_sent' :
          inflight' = [request |-> sent, to |-> HeartbeatSubscribers(sent)]
    /\ UNCHANGED <<orch_vars, hb_log, slave_vars, loop_vars>>

\* The orchestrator's event loop takes the record in flight: the heartbeat
\* branch with the record's own status.
OrchestratorTakesHeartbeat ==
    /\ "orchestrator" \in inflight.to
    /\ inflight' = [inflight EXCEPT !.to = @ \ {"orchestrator"}]
    /\ IngestHeartbeat(inflight.request.node_id, "Node",
                       inflight.request.status, node_info.capacity,
                       inflight.request.current_load, now)
    /\ UNCHANGED <<hb_log, node_vars, slave_vars, loop_vars>>

ShutdownNext ==
    \/ WorkerHeartbeatPublished
    \/ WorkerShutsDown
    \/ OrchestratorTakesHeartbeat
    \/ PlainRequestArrives
         /\ UNCHANGED <<hb_log, node_vars, slave_vars, loop_vars, inflight>>
    \/ Tick /\ UNCHANGED <<hb_log, node_vars, slave_vars, loop_vars, inflight>>
    \/ CleanupReadClock
         /\ UNCHANGED <<hb_log, node_vars, slave_vars, loop_vars, inflight>>
    \/ Cleanup /\ UNCHANGED <<hb_log, node_vars, slave_vars, loop_vars, inflight>>

\* The event loop polls for ever: a record queued for the orchestrator is
\* taken.
ShutdownSpec ==
    PoolInit /\ [][ShutdownNext]_vars /\ WF_vars(OrchestratorTakesHeartbeat)

\* The worker has shut down and its final record was published.
ShutDownCleanly ==
    /\ node_run = "down"
    /\ \E m \in node_sent : m.kind = "final" /\ m.published

\* C31: once a worker has shut down cleanly, the orchestrator comes to
\* hold no Active record of it (its final record, status Inactive, is
\* ingested), so that no later placement request selects it.
C31_FinalRecordIngested ==
    ShutDownCleanly
       ~> (node_info.node_id \in DOMAIN nodes
              => nodes[node_info.node_id].status # "Active")

\* ---------------------------------------------------------------------
\* The sweep's clock reading and the heartbeats' stamps.

\* C32: when the sweep, holding the registry lock, evaluates
\* current_time - last_heartbeat for the records, its current_time is at
\* least the last_heartbeat of every record, so the subtraction does not
\* underflow.
C32_SubtractionNeverUnderflows ==
    [][(cleanup_pc = "clock_read" /\ cleanup_pc' # "clock_read") =>
         \A n \in DOMAIN nodes :
            current_time >= nodes[n].last_heartbeat]_vars

\* ---------------------------------------------------------------------
\* The orchestrator's three tasks and the two mutexes. tokio's Mutex
\* grants the lock in the order of the calls to lock().

Tasks == {"loop", "sweep", "printer"}

\* Task t has called lock() on l and has not yet released it.
InQueue(l, t) == \E i \in 1..Len(locks[l]) : locks[l][i] = t

\* Task t holds l.
Holds(l, t) == locks[l] # << >> /\ Head(locks[l]) = t

\* l.lock() by task t.
Lock(l, t) == locks' = [locks EXCEPT ![l] = Append(@, t)]

\* Task t, holding every lock of ls, drops its guards.
Release(ls, t) ==
    locks' = [l \in LockNames |-> IF l \in ls /\ Holds(l, t)
                                  THEN Tail(locks[l])
                                  ELSE locks[l]]

\* Mutant of PrintStatusOrder: the routing table is locked first.
PrintStatusOrderReversed == <<"routing_table", "nodes">>

\* print_status: self.nodes.lock().await, then
\* self.routing_table.lock().await.
PrintStatusOrder == <<"nodes", "routing_table">>

\* The event loop takes a heartbeat or a placement request (both begin
\* with nodes.lock()), or a heartbeat reaches its second nodes.lock().
LoopLocksNodes ==
    /\ loop_pc \in {"idle", "hb_read"}
    /\ ~InQueue("nodes", "loop")
    /\ Lock("nodes", "loop")
    /\ UNCHANGED <<orch_vars, hb_log, node_vars, slave_vars, loop_pc,
                   pending, inflight>>

\* The heartbeat's first acquisition: the load is read and the guard, a
\* temporary of the statement, is dropped.
HbReads ==
    /\ Holds("nodes", "loop")
    /\ ~InQueue("routing_table", "loop")
    /\ HeartbeatReadLoad
    /\ Release({"nodes"}, "loop")

\* The heartbeat's second acquisition: the record is inserted.
HbWrites ==
    /\ Holds("nodes", "loop")
    /\ HeartbeatWrite
    /\ Release({"nodes"}, "loop")

\* handle_routing_request with a node selected: routing_table.lock() under
\* nodes_guard.
LoopLocksTable ==
    /\ loop_pc = "idle"
    /\ Holds("nodes", "loop")
    /\ Candidates # {}
    /\ TotalLoad < MaxTotalLoad
    /\ ~InQueue("routing_table", "loop")
    /\ Lock("routing_table", "loop")
    /\ UNCHANGED <<orch_vars, hb_log, node_vars, slave_vars, loop_pc,
                   pending, inflight>>

\* handle_routing_request to its end: the selection, the insert under the
\* routing-table lock if a node was selected, the publish, and the drop
\* of nodes_guard.
RequestHandled ==
    /\ loop_pc = "idle"
    /\ Holds("nodes", "loop")
    /\ IF Candidates # {}
       THEN Holds("routing_table", "loop")
       ELSE ~InQueue("routing_table", "loop")
    /\ PlainRequestArrives
    /\ Release(LockNames, "loop")
    /\ UNCHANGED <<hb_log, node_vars, slave_vars, loop_pc, pending, inflight>>

\* cleanup_inactive_nodes after its clock reading: nodes.lock().
SweepLocksNodes ==
    /\ cleanup_pc = "clock_read"
    /\ ~InQueue("nodes", "sweep")
    /\ Lock("nodes", "sweep")
    /\ UNCHANGED <<orch_vars, hb_log, node_vars, slave_vars, loop_pc,
                   pending, inflight>>

\* A record stamped after the sweep's clock reading.
Underflows == \E n \in DOMAIN nodes : nodes[n].last_heartbeat > current_time

\* The subtraction panics under the registry lock: the task ends and the
\* unwinding drops the guard.
SweepPanics ==
    /\ Holds("nodes", "sweep")
    /\ ~InQueue("routing_table", "sweep")
    /\ Underflows
    /\ Cleanup
    /\ cleanup_pc' = "panicked"
    /\ Release({"nodes"}, "sweep")
    /\ UNCHANGED <<hb_log, node_vars, slave_vars, loop_pc, pending, inflight>>

\* routing_table.lock() under the registry lock.
SweepLocksTable ==
    /\ Holds("nodes", "sweep")
    /\ ~InQueue("routing_table", "sweep")
    /\ Lock("routing_table", "sweep")
    /\ UNCHANGED <<orch_vars, hb_log, node_vars, slave_vars, loop_pc,
                   pending, inflight>>

\* The sweep's retain and publishes under both locks, and the drop of
\* both guards at the end of the function.
SweepRuns ==
    /\ \A l \in LockNames : Holds(l, "sweep")
    /\ Cleanup
    /\ cleanup_pc' = "idle"
    /\ Release(LockNames, "sweep")
    /\ UNCHANGED <<hb_log, node_vars, slave_vars, loop_pc, pending, inflight>>

\* print_status: its first lock().
PrinterLocksFirst ==
    /\ \A l \in LockNames : ~InQueue(l, "printer")
    /\ Lock(PrintStatusOrder[1], "printer")
    /\ UNCHANGED <<orch_vars, hb_log, node_vars, slave_vars, loop_pc,
                   pending, inflight>>

\* print_status: its second lock(), under the first.
PrinterLocksSecond ==
    /\ Holds(PrintStatusOrder[1], "printer")
    /\ ~InQueue(PrintStatusOrder[2], "printer")
    /\ Lock(PrintStatusOrder[2], "printer")
    /\ UNCHANGED <<orch_vars, hb_log, node_vars, slave_vars, loop_pc,
                   pending, inflight>>

\* print_status prints both maps and drops both guards.
PrinterPrints ==
    /\ \A l \in LockNames : Holds(l, "printer")
    /\ Release(LockNames, "printer")
    /\ UNCHANGED <<orch_vars, hb_log, node_vars, slave_vars, loop_pc,
                   pending, inflight>>

\* The steps of a task that has begun a handler or a function body.
LoopProgress ==
    \/ loop_pc = "hb_read" /\ LoopLocksNodes
    \/ HbReads
    \/ HbWrites
    \/ LoopLocksTable
    \/ RequestHandled

SweepProgress ==
    \/ SweepLocksNodes
    \/ SweepPanics
    \/ SweepLocksTable
    \/ SweepRuns

PrinterProgress == PrinterLocksSecond \/ PrinterPrints

LockNext ==
    \/ Tick /\ UNCHANGED <<hb_log, node_vars, slave_vars, loop_vars, inflight>>
    \/ LoopLocksNodes
    \/ HbReads
    \/ HbWrites
    \/ LoopLocksTable
    \/ RequestHandled
    \/ CleanupReadClock
         /\ UNCHANGED <<hb_log, node_vars, slave_vars, loop_vars, inflight>>
    \/ SweepLocksNodes
    \/ SweepPanics
    \/ SweepLocksTable
    \/ SweepRuns
    \/ PrinterLocksFirst
    \/ PrinterLocksSecond
    \/ PrinterPrints

\* Each task, once it runs a handler or a function body, is scheduled
\* again.
LockSpec ==
    /\ OrchestratorInit
    /\ [][LockNext]_vars
    /\ WF_vars(LoopProgress)
    /\ WF_vars(SweepProgress)
    /\ WF_vars(PrinterProgress)

\* A task that is in the queue of the routing-table lock holds the
\* registry lock.
RegistryLockFirst ==
    \A t \in Tasks : InQueue("routing_table", t) => Holds("nodes", t)

C35_RejectChangesNothing ==
    [][(RoutingStep /\ \E r \in outbox' : r.status = "Rejected") =>
         /\ nodes' = nodes
         /\ routing_table' = routing_table]_vars

\* C35 witness: the requester of the request just rejected has a
\* routing-table entry from an earlier Accepted response.
C35_Witness ==
    /\ last.kind = "routing"
    /\ \E r \in outbox : r.status = "Rejected"
    /\ last.id \in DOMAIN routing_table

\* ---------------------------------------------------------------------
\* The load counter against the routing table.

\* The routing-table entries that target node n.
EntriesTo(n) == {c \in DOMAIN routing_table : routing_table[c] = n}

\* C36: the current_load of every registered worker is at least the
\* number of routing-table entries that target it, and no heartbeat,
\* placement request or sweep lowers the current_load of a registered
\* worker.
C36_LoadCoversEntries ==
    /\ [](\A n \in DOMAIN nodes :
             nodes[n].current_load >= Cardinality(EntriesTo(n)))
    /\ [][\A n \in DOMAIN nodes :
             nodes'[n].current_load >= nodes[n].current_load]_vars

\* C36 witness: a worker's load is above the number of entries that
\* target it, and a heartbeat of that worker has been ingested since.
C36_Witness ==
    /\ last.kind = "heartbeat"
    /\ last.id \in DOMAIN nodes
    /\ Cardinality(EntriesTo(last.id)) > 0
    /\ nodes[last.id].current_load > Cardinality(EntriesTo(last.id))

\* ---------------------------------------------------------------------
\* The worker's counter at the evaluation of a placement request.

\* C37: the worker's counter is 0 whenever the worker evaluates a
\* placement request and stays within 0..1: only a data-packet handler
\* raises it, for its own duration, and the event loop runs one handler
\* at a time. So a worker with capacity >= 1 never rejects for capacity.
C37_CounterZeroAtEvaluation ==
    /\ [](node_load \in 0..1)
    /\ [][NodeRoutingStep =>
            /\ node_load = 0
            /\ node_info.capacity >= 1 =>
                  \A r \in node_outbox' :
                     r.rejection_reason # CapacityReason]_vars

\* C37 witness: a worker with capacity 1, whose heartbeat last went out
\* with load 1 during a data-packet handler, has answered a placement
\* request Accepted.
C37_Witness ==
    /\ node_info.capacity = SmallCapacity
    /\ node_last.kind = "routing"
    /\ \E m \in node_sent : m.current_load = 1
    /\ \E r \in node_outbox : Accepted(r)

=============================================================================
